---------------------------- MODULE Spec2Model ----------------------------
(***************************************************************************)
(* A model of src/app.py: the batching of source files into prompt-sized   *)
(* chunks (chunk_files), the cleanup of a suggested fix (clean_code_fences)*)
(* the backup/write contract (safe_backup, write_file), the run of         *)
(* run_pipeline and auto_fix_project with its model calls and exports, and *)
(* the rendezvous of ui_yes_no between the worker and the interface.       *)
(*                                                                         *)
(* Text is modelled character by character: a Python str is a sequence of  *)
(* one-character strings, so len(), strip(), the regular expressions of    *)
(* clean_code_fences and the f-string of build_file_section are computed   *)
(* as the code computes them.                                              *)
(***************************************************************************)
EXTENDS Integers, Sequences, FiniteSets, TLC

VARIABLES
    pc,             \* position of the run
    files,          \* chunk_files: the ordered file list
    file_contents,  \* chunk_files: path -> content
    max_chars,      \* chunk_files: the character budget
    batches,        \* chunk_files result: batch content strings
    batch_files,    \* chunk_files result: file lists, one per batch
    text,           \* clean_code_fences: the argument
    cleaned,        \* clean_code_fences(text)
    recleaned,      \* clean_code_fences(cleaned)
    disk,           \* path -> the file on disk (absent, or its content)
    bak,            \* path -> the sibling .bak of the path
    orig,           \* path -> the file as it was when the run started
    bak0,           \* path -> the .bak as it was when the run started
    wf_calls,       \* path -> the number of write_file calls on it so far
    overwritten,    \* the paths whose file write_file has overwritten
    entry,          \* who started the run: main, worker or a direct caller
    args,           \* the arguments of run_pipeline
    root_exists,    \* os.path.exists(path) of the project directory
    unreadable,     \* the paths read_file cannot read
    model_ok,       \* whether genai.GenerativeModel(MODEL_NAME) succeeds
    batch_idx,      \* run_pipeline: i, the index of the current batch
    file_idx,       \* auto_fix_project: the index of the current file
    all_reviews,    \* run_pipeline: the review texts so far
    afp,            \* the arguments of the current auto_fix_project call
    new_code,       \* auto_fix_project: the suggested fix of the current file
    calls,          \* the model calls made so far, in order
    prompts,        \* the invocations of prompt_func so far, with the answer
    console_prompts,\* the input() prompts so far, with the answer
    decided,        \* the files whose suggested fix has been decided on
    exports,        \* which report files the run has produced
    result,         \* what run_pipeline returned
    gate,           \* ui_yes_no: the threading.Event
    result_holder,  \* ui_yes_no: result_holder["ans"]
    ask_pending,    \* ui_yes_no: ask is scheduled on the interface thread
    app_alive       \* the window of the interface (app) has not been closed

chunkVars == <<files, file_contents, max_chars, batches, batch_files>>

cleanVars == <<text, cleaned, recleaned>>

diskVars == <<disk, bak, orig, bak0, wf_calls, overwritten>>

runVars == <<entry, args, root_exists, unreadable, model_ok>>

pipeVars == <<batch_idx, file_idx, all_reviews, afp, new_code, calls, prompts, console_prompts,
              decided, exports, result>>

uiVars == <<gate, result_holder, ask_pending, app_alive>>

vars == <<pc, chunkVars, cleanVars, diskVars, runVars, pipeVars, uiVars>>

(***************************************************************************)
(* Bounds of the model.                                                    *)
(***************************************************************************)
MaxFiles == 3       \* files in the list handed to chunk_files
MaxCodeLen == 2     \* characters of content per file
MaxBudget == 100    \* largest max_chars tried
MaxPieces == 4      \* pieces a text handed to clean_code_fences is built from
MaxFixPieces == 3   \* pieces a text handed to write_file is built from
MaxWrites == 2      \* write_file calls on one path in one run

(***************************************************************************)
(* Characters and Python's str helpers.                                    *)
(***************************************************************************)
NL == "\n"

Whitespace == {" ", "\n", "\t", "\r", "\f"}

UpperAlpha == <<"A","B","C","D","E","F","G","H","I","J","K","L","M",
                "N","O","P","Q","R","S","T","U","V","W","X","Y","Z">>

LowerAlpha == <<"a","b","c","d","e","f","g","h","i","j","k","l","m",
                "n","o","p","q","r","s","t","u","v","w","x","y","z">>

Digits == {"0","1","2","3","4","5","6","7","8","9"}

\* str.lower() on one character
LowerChar(c) ==
    IF \E i \in 1..26 : UpperAlpha[i] = c
    THEN LowerAlpha[CHOOSE i \in 1..26 : UpperAlpha[i] = c]
    ELSE c

\* str.lower()
Lower(s) == [i \in 1..Len(s) |-> LowerChar(s[i])]

\* the character class of the opening-fence pattern: word characters, + and -
LangChars ==
    {UpperAlpha[i] : i \in 1..26} \cup {LowerAlpha[i] : i \in 1..26}
        \cup Digits \cup {"_", "+", "-"}

\* s[n:]
Drop(s, n) == SubSeq(s, n + 1, Len(s))

\* s.startswith(p)
StartsWith(s, p) == Len(s) >= Len(p) /\ SubSeq(s, 1, Len(p)) = p

\* s.endswith(p)
EndsWith(s, p) == Len(s) >= Len(p) /\ Drop(s, Len(s) - Len(p)) = p

\* the number of leading characters of s that are in the class S (a greedy S*)
RECURSIVE SpanLen(_, _)
SpanLen(s, S) ==
    IF s # <<>> /\ Head(s) \in S THEN 1 + SpanLen(Tail(s), S) ELSE 0

RECURSIVE RStrip(_)
RStrip(s) ==
    IF s # <<>> /\ s[Len(s)] \in Whitespace
    THEN RStrip(SubSeq(s, 1, Len(s) - 1))
    ELSE s

\* str.strip()
Strip(s) == RStrip(Drop(s, SpanLen(s, Whitespace)))

\* "\n".join(parts)
RECURSIVE JoinNL(_)
JoinNL(parts) ==
    IF parts = <<>> THEN <<>>
    ELSE IF Len(parts) = 1 THEN parts[1]
    ELSE parts[1] \o <<NL>> \o JoinNL(Tail(parts))

SetMin(S) == CHOOSE x \in S : \A y \in S : x <= y

SetMax(S) == CHOOSE x \in S : \A y \in S : y <= x

(***************************************************************************)
(* clean_code_fences (src/app.py 82-92).                                   *)
(***************************************************************************)
\* the backtick character, written ~ (a TLA+ string cannot hold a backtick)
Tick == "~"

\* the three backticks of a Markdown code fence
Fence == <<Tick, Tick, Tick>>

Labels ==
    { <<"F","i","x","e","d"," ","c","o","d","e">>,
      <<"C","o","r","r","e","c","t","e","d"," ","c","o","d","e">>,
      <<"S","u","g","g","e","s","t","e","d"," ","f","i","x">> }

\* line 88: at the start of s, remove a fence, the language characters after
\* it (greedy) and one newline if there is one
SubOpenFence(s) ==
    IF StartsWith(s, Fence)
    THEN LET a == Drop(s, 3)
             b == Drop(a, SpanLen(a, LangChars))
         IN  IF b # <<>> /\ Head(b) = NL THEN Tail(b) ELSE b
    ELSE s

\* line 89: the length of the match of an optional newline and a fence at the
\* end, when r is the rest of the string from the position tried (0: no
\* match); the end anchor matches at the end and before a final newline
CloseMatchLen(r) ==
    IF r = <<NL>> \o Fence \/ r = <<NL>> \o Fence \o <<NL>> THEN 4
    ELSE IF r = Fence \/ r = Fence \o <<NL>> THEN 3
    ELSE 0

\* line 89: the leftmost match is removed
SubCloseFence(s) ==
    LET ps == {p \in 1..Len(s) : CloseMatchLen(Drop(s, p - 1)) > 0}
    IN  IF ps = {} THEN s
        ELSE LET p == SetMin(ps)
                 n == CloseMatchLen(Drop(s, p - 1))
             IN  SubSeq(s, 1, p - 1) \o Drop(s, p - 1 + n)

\* line 91: at the start of s, remove optional whitespace, one of the labels
\* (ignoring case), optional whitespace, a colon and optional whitespace
SubLabel(s) ==
    LET a == Drop(s, SpanLen(s, Whitespace))
        ls == {l \in Labels : StartsWith(Lower(a), Lower(l))}
    IN  IF ls = {} THEN s
        ELSE LET l == CHOOSE x \in ls : TRUE
                 b == Drop(a, Len(l))
                 c == Drop(b, SpanLen(b, Whitespace))
             IN  IF c # <<>> /\ Head(c) = ":"
                 THEN Drop(Tail(c), SpanLen(Tail(c), Whitespace))
                 ELSE s

clean_code_fences(t) ==
    IF t = <<>> THEN <<>>
    ELSE Strip(SubLabel(SubCloseFence(SubOpenFence(Strip(t))))) \o <<NL>>

(***************************************************************************)
(* The files on disk, safe_backup and write_file (src/app.py 74-102).      *)
(* A file is <<>> when it does not exist and <<content>> when it does.     *)
(***************************************************************************)
Absent == <<>>

File(content) == <<content>>

\* os.path.exists
Exists(f) == f # Absent

Content(f) == f[1]

\* safe_backup (lines 74-80) on the files fs = [disk, bak]; copy_ok tells
\* whether shutil.copyfile succeeds: its exception is caught and only logged
safe_backup(fs, p, copy_ok) ==
    IF ~ Exists(fs.bak[p]) /\ Exists(fs.disk[p]) /\ copy_ok
    THEN [fs EXCEPT !.bak[p] = fs.disk[p]]
    ELSE fs

\* whether safe_backup reaches shutil.copyfile (line 77)
BackupDue(fs, p) == ~ Exists(fs.bak[p]) /\ Exists(fs.disk[p])

\* write_file (lines 94-102); open_ok tells whether opening and writing the
\* file succeeds: its exception is caught and only logged
write_file(fs, p, fix, copy_ok, open_ok) ==
    LET backed == safe_backup(fs, p, copy_ok)
        code == clean_code_fences(fix)
    IN  IF open_ok
        THEN [backed EXCEPT !.disk[p] = File(code)]
        ELSE backed

(***************************************************************************)
(* build_file_section and chunk_files (src/app.py 104-130).                *)
(***************************************************************************)
\* the last component of a path
PathName(p) ==
    LET slashes == {i \in 1..Len(p) : p[i] = "/"}
    IN  IF slashes = {} THEN p ELSE Drop(p, SetMax(slashes))

\* pathlib's Path(p).suffix
PathSuffix(p) ==
    LET name == PathName(p)
        dots == {i \in 1..Len(name) : name[i] = "."}
    IN  IF dots = {} THEN <<>>
        ELSE LET i == SetMax(dots)
             IN  IF 1 < i /\ i < Len(name) THEN Drop(name, i - 1) ELSE <<>>

\* Path(file_path).suffix.lstrip('.') or 'txt'
SectionSuffix(p) ==
    LET s == Drop(PathSuffix(p), SpanLen(PathSuffix(p), {"."}))
    IN  IF s = <<>> THEN <<"t", "x", "t">> ELSE s

SectionHeader ==
    <<"#","#","#"," ","F","I","L","E"," ","P","A","T","H",":"," ">>

\* line 106: header, path, newline, fence, suffix, newline, code, newline,
\* fence, two newlines
build_file_section(file_path, code) ==
    SectionHeader \o file_path \o <<NL>> \o Fence \o SectionSuffix(file_path)
        \o <<NL>> \o code \o <<NL>> \o Fence \o <<NL, NL>>

\* ShouldClose testing only what the batch already holds, not the section
\* that is about to join it
ShouldClose_IgnoresSection(current, length, section, budget) ==
    current # <<>> /\ length > budget

\* line 119: if current and (length + len(section) > max_chars)
ShouldClose(current, length, section, budget) ==
    current # <<>> /\ length + Len(section) > budget

\* ChunkStep starting the new batch empty, which loses the file that closed
\* the previous one
ChunkStep_DropsOnClose(st, f, section, budget) ==
    IF ShouldClose(st.current, st.length, section, budget)
    THEN [batches       |-> Append(st.batches, JoinNL(st.current)),
          batch_files   |-> Append(st.batch_files, st.current_files),
          current       |-> <<>>,
          current_files |-> <<>>,
          length        |-> 0]
    ELSE [batches       |-> st.batches,
          batch_files   |-> st.batch_files,
          current       |-> Append(st.current, section),
          current_files |-> Append(st.current_files, f),
          length        |-> st.length + Len(section)]

\* one iteration of the loop of chunk_files (lines 118-126)
ChunkStep(st, f, section, budget) ==
    IF ShouldClose(st.current, st.length, section, budget)
    THEN [batches       |-> Append(st.batches, JoinNL(st.current)),
          batch_files   |-> Append(st.batch_files, st.current_files),
          current       |-> <<section>>,
          current_files |-> <<f>>,
          length        |-> Len(section)]
    ELSE [batches       |-> st.batches,
          batch_files   |-> st.batch_files,
          current       |-> Append(st.current, section),
          current_files |-> Append(st.current_files, f),
          length        |-> st.length + Len(section)]

\* the loop of chunk_files over the first n files
RECURSIVE ChunkLoop(_, _, _, _)
ChunkLoop(fs, contents, budget, n) ==
    IF n = 0
    THEN [batches |-> <<>>, batch_files |-> <<>>, current |-> <<>>,
          current_files |-> <<>>, length |-> 0]
    ELSE ChunkStep(ChunkLoop(fs, contents, budget, n - 1), fs[n],
                   build_file_section(fs[n], contents[fs[n]]), budget)

\* chunk_files: (batches, batch_files)
chunk_files(fs, contents, budget) ==
    LET st == ChunkLoop(fs, contents, budget, Len(fs))
    IN  IF st.current # <<>>
        THEN [batches     |-> Append(st.batches, JoinNL(st.current)),
              batch_files |-> Append(st.batch_files, st.current_files)]
        ELSE [batches |-> st.batches, batch_files |-> st.batch_files]

(***************************************************************************)
(* Inputs.                                                                 *)
(***************************************************************************)
\* the k-th path of a sorted listing: a.py, b.js, c.py, d.js, ...
PathOf(k) ==
    IF k % 2 = 1 THEN <<LowerAlpha[k], ".", "p", "y">>
                 ELSE <<LowerAlpha[k], ".", "j", "s">>

\* the sorted list of the paths whose indices are in S
RECURSIVE SortedPaths(_)
SortedPaths(S) ==
    IF S = {} THEN <<>>
    ELSE <<PathOf(SetMin(S))>> \o SortedPaths(S \ {SetMin(S)})

\* a content of n characters
Code(n) == [i \in 1..n |-> "x"]

Codes == {Code(n) : n \in 0..MaxCodeLen}

\* the pieces texts are built from
Pieces ==
    <<Fence, <<NL>>, <<" ">>, <<"x">>, <<"p", "y">>, <<":">>,
      <<"F","i","x","e","d"," ","c","o","d","e">>,
      <<"f","i","x","e","d"," ","C","O","D","E">> >>

RECURSIVE Flatten(_)
Flatten(ps) == IF ps = <<>> THEN <<>> ELSE Pieces[Head(ps)] \o Flatten(Tail(ps))

PieceSeqs(n) == UNION {[1..k -> 1..Len(Pieces)] : k \in 0..n}

Texts == {Flatten(ps) : ps \in PieceSeqs(MaxPieces)}

(***************************************************************************)
(* SpecChunk: chunk_files applied to every input within the bounds.        *)
(***************************************************************************)
CleanIdle == text = <<>> /\ cleaned = <<>> /\ recleaned = <<>>

ChunkIdle ==
    /\ files = <<>> /\ file_contents = <<>> /\ max_chars = 1
    /\ batches = <<>> /\ batch_files = <<>>

\* the paths the model keeps on disk: two source files, a file whose
\* extension is not supported and a source file in an ignored directory
Readme == <<"r", ".", "m", "d">>

DistFile == <<"d", "i", "s", "t", "/", "c", ".", "p", "y">>

DiskPaths == {PathOf(1), PathOf(2), Readme, DistFile}

NoFiles == [p \in DiskPaths |-> Absent]

NoCall ==
    [review_output |-> <<>>, files_to_process |-> <<>>, apply_all |-> FALSE,
     interactive |-> FALSE, prompt_func |-> "none", ui_logger |-> FALSE]

NoArgs ==
    [export_json |-> FALSE, autofix |-> FALSE, apply_all |-> FALSE,
     interactive |-> FALSE, prompt_func |-> "none", ui_logger |-> FALSE]

NoExports == [xlsx |-> FALSE, json |-> FALSE]

PipeStart ==
    /\ batch_idx = 0 /\ file_idx = 0 /\ all_reviews = <<>> /\ afp = NoCall /\ new_code = <<>>
    /\ calls = <<>> /\ prompts = <<>> /\ console_prompts = <<>>
    /\ decided = {} /\ exports = NoExports /\ result = <<>>
    /\ gate = FALSE /\ result_holder = FALSE /\ ask_pending = FALSE
    /\ app_alive = TRUE

PipeIdle ==
    /\ entry = "none" /\ args = NoArgs /\ root_exists = FALSE
    /\ unreadable = {} /\ model_ok = FALSE
    /\ PipeStart

DiskIdle ==
    /\ disk = NoFiles /\ bak = NoFiles /\ orig = NoFiles /\ bak0 = NoFiles
    /\ wf_calls = [p \in DiskPaths |-> 0]
    /\ overwritten = {}

InitChunk ==
    /\ pc = "chunk_call"
    /\ \E S \in SUBSET (1..MaxFiles) :
          /\ files = SortedPaths(S)
          /\ file_contents \in [{PathOf(k) : k \in S} -> Codes]
    /\ max_chars \in 1..MaxBudget
    /\ batches = <<>>
    /\ batch_files = <<>>
    /\ CleanIdle
    /\ DiskIdle
    /\ PipeIdle

ChunkFiles ==
    /\ pc = "chunk_call"
    /\ LET r == chunk_files(files, file_contents, max_chars)
       IN  /\ batches' = r.batches
           /\ batch_files' = r.batch_files
    /\ pc' = "chunk_done"
    /\ UNCHANGED <<files, file_contents, max_chars, cleanVars, diskVars,
                   runVars, pipeVars, uiVars>>

NextChunk == ChunkFiles

SpecChunk == InitChunk /\ [][NextChunk]_vars

(***************************************************************************)
(* Properties of chunk_files.                                              *)
(***************************************************************************)
RECURSIVE ConcatAll(_)
ConcatAll(ss) == IF ss = <<>> THEN <<>> ELSE Head(ss) \o ConcatAll(Tail(ss))

\* the serialized section of file f of the current input
SectionOf(f) == build_file_section(f, file_contents[f])

Oversized(f) == Len(SectionOf(f)) > max_chars

\* C1: the batch file-lists returned by chunk_files partition the input:
\* concatenated in batch order they are the input file list, no batch is
\* empty, and there is one batch content string per file list.
C1_BatchesPartitionInput ==
    pc = "chunk_done" =>
        /\ ConcatAll(batch_files) = files
        /\ \A k \in 1..Len(batch_files) : batch_files[k] # <<>>
        /\ Len(batches) = Len(batch_files)

\* C1 witness: three files were chunked into two batches, the first of them
\* holding two files.
C1_Witness ==
    /\ pc = "chunk_done"
    /\ Len(files) = 3
    /\ Len(batch_files) = 2
    /\ Len(batch_files[1]) = 2

\* C2: the serialized text of every returned batch is at most max_chars long,
\* except for a batch of exactly one file whose own section is longer than
\* max_chars; and two neighbouring files whose sections each fit the budget
\* but not together are in different batches.
C2_BatchTextWithinBudget ==
    pc = "chunk_done" =>
        /\ \A k \in 1..Len(batches) :
              \/ Len(batches[k]) <= max_chars
              \/ /\ Len(batch_files[k]) = 1
                 /\ Oversized(batch_files[k][1])
        /\ \A k \in 1..Len(batch_files) :
              \A i \in 1..(Len(batch_files[k]) - 1) :
                 LET a == SectionOf(batch_files[k][i])
                     b == SectionOf(batch_files[k][i + 1])
                 IN  ~ (/\ Len(a) <= max_chars
                        /\ Len(b) <= max_chars
                        /\ Len(a) + Len(b) > max_chars)

\* C3: a file whose section alone is longer than max_chars is in the output,
\* in a batch that holds no other file and whose text is that file's whole
\* section.
C3_OversizedFileAlone ==
    pc = "chunk_done" =>
        \A i \in 1..Len(files) :
            Oversized(files[i]) =>
                \E k \in 1..Len(batch_files) :
                    /\ batch_files[k] = <<files[i]>>
                    /\ batches[k] = SectionOf(files[i])

\* C3 witness: an oversized file stood between two files that fit the budget.
C3_Witness ==
    /\ pc = "chunk_done"
    /\ Len(files) = 3
    /\ ~ Oversized(files[1])
    /\ Oversized(files[2])
    /\ ~ Oversized(files[3])

(***************************************************************************)
(* SpecWrite: write_file called up to MaxWrites times on one existing      *)
(* file, with every text within the bounds and every outcome of the copy   *)
(* and of the write.                                                       *)
(***************************************************************************)
WritePath == PathOf(1)

\* the pieces of the texts handed to write_file: a fence, a newline, a letter
FixTexts == {Flatten(ps) : ps \in UNION {[1..k -> {1, 2, 4}] : k \in 0..MaxFixPieces}}

\* the content of a backup left by an earlier run
OldBackup == <<"o", "l", "d", NL>>

InitWrite ==
    /\ pc = "write_ready"
    /\ \E c \in Codes \ {<<>>} :
          disk = [p \in DiskPaths |-> IF p = WritePath THEN File(c \o <<NL>>) ELSE Absent]
    /\ \E b \in {Absent, File(OldBackup)} :
          bak = [p \in DiskPaths |-> IF p = WritePath THEN b ELSE Absent]
    /\ orig = disk
    /\ bak0 = bak
    /\ wf_calls = [p \in DiskPaths |-> 0]
    /\ overwritten = {}
    /\ ChunkIdle
    /\ CleanIdle
    /\ PipeIdle

WriteFile ==
    /\ pc = "write_ready"
    /\ wf_calls[WritePath] < MaxWrites
    /\ \E t \in FixTexts, open_ok \in BOOLEAN :
       \E copy_ok \in (IF BackupDue([disk |-> disk, bak |-> bak], WritePath)
                       THEN BOOLEAN ELSE {TRUE}) :
          LET fs == write_file([disk |-> disk, bak |-> bak], WritePath, t,
                               copy_ok, open_ok)
          IN  /\ disk' = fs.disk
              /\ bak' = fs.bak
              /\ overwritten' = IF open_ok THEN overwritten \cup {WritePath}
                                ELSE overwritten
    /\ wf_calls' = [wf_calls EXCEPT ![WritePath] = @ + 1]
    /\ UNCHANGED <<pc, orig, bak0, chunkVars, cleanVars, runVars, pipeVars,
                   uiVars>>

NextWrite == WriteFile

SpecWrite == InitWrite /\ [][NextWrite]_vars

\* C4: after two or more write_file calls on a path that had no .bak when
\* the run started, a file that has been overwritten has its .bak, and the
\* .bak holds the content the file had before the run, never a content
\* written by an earlier call.
C4_BackupHoldsOriginal ==
    \A p \in DiskPaths :
        (wf_calls[p] >= 2 /\ ~ Exists(bak0[p]) /\ Exists(orig[p])) =>
            /\ p \in overwritten => Exists(bak[p])
            /\ Exists(bak[p]) => bak[p] = orig[p]

\* a text ends with exactly one trailing newline
OneTrailingNewline(s) ==
    /\ Len(s) >= 1
    /\ s[Len(s)] = NL
    /\ (Len(s) >= 2 => s[Len(s) - 1] # NL)

\* C5: the content write_file has written to a file ends with exactly one
\* trailing newline, whatever the suggested-fix text was.
C5_WrittenEndsWithOneNewline ==
    \A p \in overwritten : OneTrailingNewline(Content(disk[p]))

(***************************************************************************)
(* SpecClean: clean_code_fences applied once and twice to every text.      *)
(***************************************************************************)
InitClean ==
    /\ pc = "clean_call"
    /\ text \in Texts
    /\ cleaned = <<>>
    /\ recleaned = <<>>
    /\ ChunkIdle
    /\ DiskIdle
    /\ PipeIdle

CleanOnce ==
    /\ pc = "clean_call"
    /\ cleaned' = clean_code_fences(text)
    /\ pc' = "clean_once"
    /\ UNCHANGED <<text, recleaned, chunkVars, diskVars, runVars, pipeVars,
                   uiVars>>

CleanTwice ==
    /\ pc = "clean_once"
    /\ recleaned' = clean_code_fences(cleaned)
    /\ pc' = "clean_twice"
    /\ UNCHANGED <<text, cleaned, chunkVars, diskVars, runVars, pipeVars,
                   uiVars>>

NextClean == CleanOnce \/ CleanTwice

SpecClean == InitClean /\ [][NextClean]_vars

\* C6: code-fence stripping is idempotent: cleaning the cleaned text again
\* gives the cleaned text.
C6_CleanIdempotent ==
    pc = "clean_twice" => recleaned = cleaned

(***************************************************************************)
(* The File Collector and read_file (src/app.py 32, 54-72).  Paths are     *)
(* relative to the project directory.                                      *)
(***************************************************************************)
SUPPORTED_SUFFIXES ==
    { <<".", "p", "y">>, <<".", "j", "s">>, <<".", "j", "s", "x">>,
      <<".", "t", "s">>, <<".", "j", "a", "v", "a">>, <<".", "c", "p", "p">>,
      <<".", "h", "t", "m", "l">>, <<".", "c", "s", "s">> }

IgnoredDirs ==
    { <<"n","o","d","e","_","m","o","d","u","l","e","s">>,
      <<".", "g", "i", "t">>,
      <<"_","_","p","y","c","a","c","h","e","_","_">>,
      <<"d", "i", "s", "t">>,
      <<"b", "u", "i", "l", "d">> }

\* the characters of the model's paths in code-point order
CodePoints ==
    <<".", "/", "0", "1", "2", "3", "4", "5", "6", "7", "8", "9">>
        \o UpperAlpha \o <<"_">> \o LowerAlpha

Ord(c) == CHOOSE k \in 1..Len(CodePoints) : CodePoints[k] = c

\* s < t for Python strings
RECURSIVE StrLess(_, _)
StrLess(s, t) ==
    IF t = <<>> THEN FALSE
    ELSE IF s = <<>> THEN TRUE
    ELSE IF Head(s) = Head(t) THEN StrLess(Tail(s), Tail(t))
    ELSE Ord(Head(s)) < Ord(Head(t))

\* list.sort() of a set of distinct paths
RECURSIVE SortPaths(_)
SortPaths(S) ==
    IF S = {} THEN <<>>
    ELSE LET m == CHOOSE x \in S : \A y \in S \ {x} : StrLess(x, y)
         IN  <<m>> \o SortPaths(S \ {m})

\* Path(path).parts
RECURSIVE PathParts(_)
PathParts(p) ==
    LET slashes == {k \in 1..Len(p) : p[k] = "/"}
    IN  IF slashes = {} THEN {p}
        ELSE {SubSeq(p, 1, SetMin(slashes) - 1)}
                 \cup PathParts(Drop(p, SetMin(slashes)))

\* line 58: file.lower().endswith(SUPPORTED_SUFFIXES)
Supported(p) ==
    \E suf \in SUPPORTED_SUFFIXES : EndsWith(Lower(PathName(p)), suf)

\* get_code_files (lines 54-64) on the files d of the project directory
get_code_files(d) ==
    SortPaths({p \in DOMAIN d :
                  /\ Exists(d[p])
                  /\ Supported(p)
                  /\ PathParts(p) \cap IgnoredDirs = {}})

\* read_file (lines 66-72): the file, or None (<<>>) when it cannot be read
read_file(d, unread, p) ==
    IF Exists(d[p]) /\ p \notin unread THEN d[p] ELSE Absent

\* line 337: read_file(f) or ""
ReadOrEmpty(d, unread, p) ==
    IF read_file(d, unread, p) = Absent THEN <<>>
    ELSE Content(read_file(d, unread, p))

(***************************************************************************)
(* The model service.                                                      *)
(***************************************************************************)
\* texts the model may answer a review prompt with
ModelReviewTexts == { <<>>, <<"o", "k">> }

\* line 139: f"Error: {e}"
ErrorText == <<"E", "r", "r", "o", "r", ":", " ", "e">>

\* texts the model may answer a fix prompt with: blank, and fenced code
ModelFixTexts ==
    { <<NL>>,
      Fence \o <<"p", "y", NL, "y", NL>> \o Fence \o <<NL>> }

\* "\n\n".join(all_reviews)
RECURSIVE JoinBlank(_)
JoinBlank(parts) ==
    IF parts = <<>> THEN <<>>
    ELSE IF Len(parts) = 1 THEN parts[1]
    ELSE parts[1] \o <<NL, NL>> \o JoinBlank(Tail(parts))

(***************************************************************************)
(* Spec: a run of the tool, started by main (command line), by the worker  *)
(* thread of the graphical interface, or by a direct call of               *)
(* auto_fix_project.                                                       *)
(***************************************************************************)
Bools == BOOLEAN

\* main, line 721: no logger, no callback, interactive left at its default
MainArgs ==
    { [export_json |-> e, autofix |-> a, apply_all |-> aa,
       interactive |-> FALSE, prompt_func |-> "none", ui_logger |-> FALSE] :
      e \in Bools, a \in Bools, aa \in Bools }

\* on_run.worker, lines 689-691
WorkerArgs ==
    { [export_json |-> e, autofix |-> a, apply_all |-> aa,
       interactive |-> (a /\ ~ aa),
       prompt_func |-> IF a /\ ~ aa THEN "ui_yes_no" ELSE "none",
       ui_logger |-> TRUE] :
      e \in Bools, a \in Bools, aa \in Bools }

\* the project directories of the model
Trees ==
    { d \in [DiskPaths -> {Absent, File(Code(0)), File(Code(1))}] :
        /\ d[Readme] # File(Code(0))
        /\ d[DistFile] # File(Code(0)) }

Init ==
    /\ entry \in {"main", "worker", "auto_fix_project"}
    /\ pc = IF entry = "auto_fix_project" THEN "afp_start" ELSE "rp_start"
    /\ root_exists \in (IF entry = "auto_fix_project" THEN {TRUE} ELSE Bools)
    /\ disk \in (IF root_exists THEN Trees ELSE {NoFiles})
    /\ bak = NoFiles
    /\ orig = disk
    /\ bak0 = bak
    /\ wf_calls = [p \in DiskPaths |-> 0]
    /\ overwritten = {}
    /\ unreadable \in SUBSET {PathOf(2)}
    /\ model_ok \in Bools
    /\ max_chars \in {1, MaxBudget}
    /\ args \in (CASE entry = "main" -> MainArgs
                   [] entry = "worker" -> WorkerArgs
                   [] OTHER -> {NoArgs})
    /\ afp \in (IF entry = "auto_fix_project"
                THEN { [review_output |-> r,
                        files_to_process |-> get_code_files(disk),
                        apply_all |-> aa, interactive |-> ia,
                        prompt_func |-> pf, ui_logger |-> ul] :
                       r \in ModelReviewTexts, aa \in Bools, ia \in Bools,
                       pf \in {"none", "callback"}, ul \in Bools }
                ELSE {NoCall})
    /\ files = <<>> /\ file_contents = <<>> /\ batches = <<>> /\ batch_files = <<>>
    /\ batch_idx = 0 /\ file_idx = 0 /\ all_reviews = <<>> /\ new_code = <<>>
    /\ calls = <<>> /\ prompts = <<>> /\ console_prompts = <<>>
    /\ decided = {} /\ exports = NoExports /\ result = <<>>
    /\ gate = FALSE /\ result_holder = FALSE /\ ask_pending = FALSE
    /\ app_alive = TRUE
    /\ CleanIdle

\* lines 317-323: an invalid path ends the run
RpCheckPath ==
    /\ pc = "rp_start"
    /\ pc' = IF root_exists THEN "rp_collect" ELSE "aborted"
    /\ UNCHANGED <<chunkVars, cleanVars, diskVars, runVars, pipeVars, uiVars>>

\* the test of line 326 written as a test for None, which an empty list
\* never passes
NoSourceFiles_IsNone(fl) == FALSE

\* line 326: if not files
NoSourceFiles(fl) == fl = <<>>

\* lines 325-331: the File Collector; no source file ends the run
RpCollect ==
    /\ pc = "rp_collect"
    /\ files' = get_code_files(disk)
    /\ pc' = IF NoSourceFiles(files') THEN "aborted" ELSE "rp_batch"
    /\ UNCHANGED <<file_contents, max_chars, batches, batch_files, cleanVars,
                   diskVars, runVars, pipeVars, uiVars>>

\* where run_pipeline goes after batch n - 1: the next batch, or the export
AfterBatch(n, nbatches) == IF n <= nbatches THEN "rp_review" ELSE "rp_excel"

\* lines 337-340: the contents are read and the files batched
RpBatch ==
    /\ pc = "rp_batch"
    /\ file_contents' =
          [f \in {files[k] : k \in 1..Len(files)} |->
              ReadOrEmpty(disk, unreadable, f)]
    /\ LET r == chunk_files(files, file_contents', max_chars)
       IN  /\ batches' = r.batches
           /\ batch_files' = r.batch_files
    /\ batch_idx' = 1
    /\ pc' = AfterBatch(1, Len(batches'))
    /\ UNCHANGED <<files, max_chars, cleanVars, diskVars, runVars, file_idx,
                   all_reviews, afp, new_code, calls, prompts, console_prompts,
                   decided, exports, result, uiVars>>

\* the call of line 365 handing over the review of the first batch instead of
\* the review of the batch just reviewed
FixCall_FirstReview(review) ==
    [review_output |-> IF all_reviews = <<>> THEN review ELSE all_reviews[1],
     files_to_process |-> batch_files[batch_idx],
     apply_all |-> args.apply_all, interactive |-> TRUE,
     prompt_func |-> args.prompt_func, ui_logger |-> args.ui_logger]

\* line 365: the call of auto_fix_project for the batch just reviewed
FixCall(review) ==
    [review_output |-> review, files_to_process |-> batch_files[batch_idx],
     apply_all |-> args.apply_all, interactive |-> TRUE,
     prompt_func |-> args.prompt_func, ui_logger |-> args.ui_logger]

\* lines 346-347 with generate_content (lines 132-139): with no model handle
\* the RuntimeError leaves run_pipeline; a failing call becomes an error text
RpReview ==
    /\ pc = "rp_review"
    /\ IF ~ model_ok
       THEN /\ pc' = "raised"
            /\ UNCHANGED <<all_reviews, calls, afp, batch_idx>>
       ELSE \E output \in ModelReviewTexts \cup {ErrorText} :
               /\ calls' = Append(calls, [kind |-> "review", batch |-> batch_idx,
                                          file |-> <<>>, review |-> <<>>])
               /\ all_reviews' = Append(all_reviews, output)
               /\ IF args.autofix
                  THEN /\ afp' = FixCall(output)
                       /\ pc' = "afp_start"
                       /\ UNCHANGED batch_idx
                  ELSE /\ batch_idx' = batch_idx + 1
                       /\ pc' = AfterBatch(batch_idx + 1, Len(batches))
                       /\ UNCHANGED afp
    /\ UNCHANGED <<chunkVars, cleanVars, diskVars, runVars, file_idx, new_code,
                   prompts, console_prompts, decided, exports, result, uiVars>>

\* line 219: the model handle of auto_fix_project; its failure is not caught
AfpStart ==
    /\ pc = "afp_start"
    /\ pc' = IF model_ok THEN "afp_file" ELSE "raised"
    /\ file_idx' = 1
    /\ UNCHANGED <<chunkVars, cleanVars, diskVars, runVars, batch_idx,
                   all_reviews, afp, new_code, calls, prompts, console_prompts,
                   decided, exports, result, uiVars>>

CurFile == afp.files_to_process[file_idx]

InLoop == file_idx <= Len(afp.files_to_process)

\* lines 222-224: a file that cannot be read, or is empty, is passed over
AfpRead ==
    /\ pc = "afp_file"
    /\ InLoop
    /\ IF read_file(disk, unreadable, CurFile) \in {Absent, File(<<>>)}
       THEN /\ file_idx' = file_idx + 1
            /\ pc' = "afp_file"
       ELSE /\ pc' = "afp_call"
            /\ UNCHANGED file_idx
    /\ UNCHANGED <<chunkVars, cleanVars, diskVars, runVars, batch_idx,
                   all_reviews, afp, new_code, calls, prompts, console_prompts,
                   decided, exports, result, uiVars>>

\* lines 240-242 and 276: the fix call; its exception is caught and the file
\* passed over
AfpCall ==
    /\ pc = "afp_call"
    /\ calls' = Append(calls, [kind |-> "fix", batch |-> batch_idx,
                               file |-> CurFile, review |-> afp.review_output])
    /\ \/ /\ pc' = "afp_file"
          /\ file_idx' = file_idx + 1
          /\ UNCHANGED new_code
       \/ \E t \in ModelFixTexts :
             /\ new_code' = Strip(t)
             /\ pc' = "afp_decide"
             /\ UNCHANGED file_idx
    /\ UNCHANGED <<chunkVars, cleanVars, diskVars, runVars, batch_idx,
                   all_reviews, afp, prompts, console_prompts, decided,
                   exports, result, uiVars>>

\* write_file(file_path, new_code) with every outcome of the copy and of the
\* write
DoWrite ==
    \E open_ok \in Bools :
    \E copy_ok \in (IF BackupDue([disk |-> disk, bak |-> bak], CurFile)
                    THEN Bools ELSE {TRUE}) :
       LET fs == write_file([disk |-> disk, bak |-> bak], CurFile, new_code,
                            copy_ok, open_ok)
       IN  /\ disk' = fs.disk
           /\ bak' = fs.bak
           /\ overwritten' = IF open_ok THEN overwritten \cup {CurFile}
                             ELSE overwritten
           /\ wf_calls' = [wf_calls EXCEPT ![CurFile] = @ + 1]
           /\ UNCHANGED <<orig, bak0>>

\* the end of one iteration of the loop of auto_fix_project
NextFile ==
    /\ decided' = decided \cup {CurFile}
    /\ file_idx' = file_idx + 1
    /\ pc' = "afp_file"

\* lines 250-251: apply_all writes without asking
AfpApplyAll ==
    /\ pc = "afp_decide"
    /\ afp.apply_all
    /\ DoWrite
    /\ NextFile
    /\ UNCHANGED <<chunkVars, cleanVars, runVars, batch_idx, all_reviews, afp,
                   new_code, calls, prompts, console_prompts, exports, result,
                   uiVars>>

\* lines 253-255 with a callback that answers at once
AfpPromptCallback ==
    /\ pc = "afp_decide"
    /\ ~ afp.apply_all /\ afp.interactive /\ afp.ui_logger
    /\ afp.prompt_func = "callback"
    /\ \E ans \in Bools :
          /\ prompts' = Append(prompts, [file |-> CurFile, ans |-> ans])
          /\ IF ans THEN DoWrite ELSE UNCHANGED diskVars
    /\ NextFile
    /\ UNCHANGED <<chunkVars, cleanVars, runVars, batch_idx, all_reviews, afp,
                   new_code, calls, console_prompts, exports, result, uiVars>>

\* line 255 with prompt_func=None: the TypeError is caught at line 276
AfpPromptMissing ==
    /\ pc = "afp_decide"
    /\ ~ afp.apply_all /\ afp.interactive /\ afp.ui_logger
    /\ afp.prompt_func = "none"
    /\ NextFile
    /\ UNCHANGED <<chunkVars, cleanVars, diskVars, runVars, batch_idx,
                   all_reviews, afp, new_code, calls, prompts, console_prompts,
                   exports, result, uiVars>>

\* line 255 with ui_yes_no (lines 615-626): ask is scheduled on the interface
\* thread and the worker waits at the gate
AfpPromptUi ==
    /\ pc = "afp_decide"
    /\ ~ afp.apply_all /\ afp.interactive /\ afp.ui_logger
    /\ afp.prompt_func = "ui_yes_no"
    /\ result_holder' = FALSE
    /\ gate' = FALSE
    /\ ask_pending' = TRUE
    /\ pc' = "ui_wait"
    /\ UNCHANGED <<chunkVars, cleanVars, diskVars, runVars, pipeVars, app_alive>>

\* what messagebox.askyesno (line 620) may do: return True, return False, or
\* raise
DialogOutcomes == {"yes", "no", "raised"}

\* lines 619-623: the answer ask deposits; False when the dialog raised
AskAnswer(outcome) == outcome = "yes"

\* ask (lines 618-623) on the interface thread: the answer of the dialog is
\* deposited in the result holder
UiAsk ==
    /\ ask_pending
    /\ \E outcome \in DialogOutcomes :
          /\ result_holder' = AskAnswer(outcome)
          /\ prompts' = Append(prompts, [file |-> CurFile,
                                         ans |-> AskAnswer(outcome)])
    /\ ask_pending' = FALSE
    /\ UNCHANGED <<pc, chunkVars, cleanVars, diskVars, runVars, batch_idx,
                   file_idx, all_reviews, afp, new_code, calls, console_prompts,
                   decided, exports, result, gate, app_alive>>

\* ask has deposited its answer and has not yet set the gate
Deposited == pc = "ui_wait" /\ app_alive /\ ~ ask_pending /\ ~ gate

\* line 624: gate.set(), the last statement of ask
UiSignal ==
    /\ Deposited
    /\ gate' = TRUE
    /\ UNCHANGED <<pc, chunkVars, cleanVars, diskVars, runVars, pipeVars,
                   result_holder, ask_pending, app_alive>>

\* the window is closed while the worker waits at the gate and before the
\* scheduled ask has run: the interface is destroyed with its scheduled
\* callbacks, so ask never runs; nothing in lines 615-627 sets the gate
UiClose ==
    /\ pc = "ui_wait"
    /\ app_alive
    /\ ask_pending
    /\ app_alive' = FALSE
    /\ ask_pending' = FALSE
    /\ UNCHANGED <<pc, chunkVars, cleanVars, diskVars, runVars, pipeVars, gate,
                   result_holder>>

\* lines 697 and 701: after the window is closed app.mainloop() returns and
\* the interpreter exits, which stops the daemon worker thread where it is
ProcessExit ==
    /\ pc = "ui_wait"
    /\ ~ app_alive
    /\ pc' = "killed"
    /\ UNCHANGED <<chunkVars, cleanVars, diskVars, runVars, pipeVars, uiVars>>

\* the worker leaves gate.wait() whether or not the gate has been set
AfpAnswerUi_NoWait ==
    /\ pc = "ui_wait"
    /\ IF result_holder THEN DoWrite ELSE UNCHANGED diskVars
    /\ NextFile
    /\ UNCHANGED <<chunkVars, cleanVars, runVars, batch_idx, all_reviews, afp,
                   new_code, calls, prompts, console_prompts, exports, result,
                   uiVars>>

\* lines 626-627 and 255-260: the worker leaves gate.wait() and applies the
\* answer
AfpAnswerUi ==
    /\ pc = "ui_wait"
    /\ gate
    /\ IF result_holder THEN DoWrite ELSE UNCHANGED diskVars
    /\ NextFile
    /\ UNCHANGED <<chunkVars, cleanVars, runVars, batch_idx, all_reviews, afp,
                   new_code, calls, prompts, console_prompts, exports, result,
                   uiVars>>

\* lines 263-268: without a logger the question goes to input()
AfpPromptConsole ==
    /\ pc = "afp_decide"
    /\ ~ afp.apply_all /\ afp.interactive /\ ~ afp.ui_logger
    /\ \E choice \in {"y", "n"} :
          /\ console_prompts' =
                Append(console_prompts, [file |-> CurFile, ans |-> choice])
          /\ IF choice = "y" THEN DoWrite ELSE UNCHANGED diskVars
    /\ NextFile
    /\ UNCHANGED <<chunkVars, cleanVars, runVars, batch_idx, all_reviews, afp,
                   new_code, calls, prompts, exports, result, uiVars>>

\* lines 270-275: not interactive, not apply_all: the file is only logged
AfpSkip ==
    /\ pc = "afp_decide"
    /\ ~ afp.apply_all /\ ~ afp.interactive
    /\ NextFile
    /\ UNCHANGED <<chunkVars, cleanVars, diskVars, runVars, batch_idx,
                   all_reviews, afp, new_code, calls, prompts, console_prompts,
                   exports, result, uiVars>>

\* the loop of auto_fix_project is over: back in run_pipeline (the next
\* batch), or back at the direct caller
AfpReturn ==
    /\ pc = "afp_file"
    /\ ~ InLoop
    /\ IF entry = "auto_fix_project"
       THEN /\ pc' = "returned"
            /\ UNCHANGED batch_idx
       ELSE /\ batch_idx' = batch_idx + 1
            /\ pc' = AfterBatch(batch_idx + 1, Len(batches))
    /\ UNCHANGED <<chunkVars, cleanVars, diskVars, runVars, file_idx,
                   all_reviews, afp, new_code, calls, prompts, console_prompts,
                   decided, exports, result, uiVars>>

\* lines 367-368 with save_to_excel (lines 280-308): without openpyxl the
\* export is skipped with a warning; a failure of wb.save is not caught
RpExcel ==
    /\ pc = "rp_excel"
    /\ \E outcome \in {"saved", "no_openpyxl", "save_failed"} :
          /\ exports' = [exports EXCEPT !.xlsx = (outcome = "saved")]
          /\ pc' = IF outcome = "save_failed" THEN "raised"
                   ELSE IF args.export_json THEN "rp_json" ELSE "done"
          /\ result' = IF outcome # "save_failed" /\ ~ args.export_json
                       THEN JoinBlank(all_reviews) ELSE result
    /\ UNCHANGED <<chunkVars, cleanVars, diskVars, runVars, batch_idx, file_idx,
                   all_reviews, afp, new_code, calls, prompts, console_prompts,
                   decided, uiVars>>

\* lines 370-382: the JSON export; a failure of open or json.dump is not
\* caught
RpJson ==
    /\ pc = "rp_json"
    /\ \E ok \in Bools :
          /\ exports' = [exports EXCEPT !.json = ok]
          /\ pc' = IF ok THEN "done" ELSE "raised"
          /\ result' = IF ok THEN JoinBlank(all_reviews) ELSE result
    /\ UNCHANGED <<chunkVars, cleanVars, diskVars, runVars, batch_idx, file_idx,
                   all_reviews, afp, new_code, calls, prompts, console_prompts,
                   decided, uiVars>>

Next ==
    \/ RpCheckPath \/ RpCollect \/ RpBatch \/ RpReview
    \/ AfpStart \/ AfpRead \/ AfpCall
    \/ AfpApplyAll \/ AfpPromptCallback \/ AfpPromptMissing \/ AfpPromptUi
    \/ UiAsk \/ AfpAnswerUi \/ AfpPromptConsole \/ AfpSkip \/ AfpReturn
    \/ RpExcel \/ RpJson
    \/ UiSignal \/ UiClose \/ ProcessExit

Spec == Init /\ [][Next]_vars

(***************************************************************************)
(* SpecUi: the runs started by the worker thread of the graphical          *)
(* interface with autofix and without apply-all (lines 689-691), where     *)
(* every suggested fix is put to the user through ui_yes_no.  Both threads *)
(* of the rendezvous keep running: the interface thread runs a scheduled   *)
(* ask to its end, and the worker leaves gate.wait() once the gate is set. *)
(***************************************************************************)
InitUi ==
    /\ Init
    /\ entry = "worker"
    /\ args.autofix
    /\ ~ args.apply_all

NextUi ==
    \/ RpCheckPath \/ RpCollect \/ RpBatch \/ RpReview
    \/ AfpStart \/ AfpRead \/ AfpCall \/ AfpPromptUi
    \/ UiAsk \/ UiSignal \/ UiClose \/ ProcessExit \/ AfpAnswerUi
    \/ AfpReturn \/ RpExcel \/ RpJson

FairUi == WF_vars(UiAsk) /\ WF_vars(UiSignal) /\ WF_vars(AfpAnswerUi)

SpecUi == InitUi /\ [][NextUi]_vars /\ FairUi

(***************************************************************************)
(* Properties of the Fix Applier and of the run.                           *)
(***************************************************************************)
\* the callback was invoked for file f
Asked(f) == \E k \in 1..Len(prompts) : prompts[k].file = f

\* the callback answered ans for file f
Answered(f, ans) ==
    \E k \in 1..Len(prompts) : prompts[k].file = f /\ prompts[k].ans = ans

\* C7: under apply-all no callback and no prompt is ever invoked, write_file
\* is called for every file with a suggested fix, and a file that has been
\* overwritten has a .bak holding its pre-fix content.
C7_ApplyAllWritesWithBackup ==
    afp.apply_all =>
        /\ prompts = <<>>
        /\ console_prompts = <<>>
        /\ ~ ask_pending
        /\ \A f \in decided :
              /\ wf_calls[f] = 1
              /\ f \in overwritten => (Exists(bak[f]) /\ bak[f] = orig[f])

\* C8: under the interactive policy with a supplied callback, the callback
\* is invoked for every file with a suggested fix, the file is written only
\* on an affirmative answer, and after a rejection the file is unchanged and
\* no .bak was created for it.
C8_InteractiveAsksCallback ==
    (~ afp.apply_all /\ afp.interactive /\ afp.prompt_func # "none") =>
        \A f \in decided :
            /\ Asked(f)
            /\ wf_calls[f] > 0 => Answered(f, TRUE)
            /\ Answered(f, FALSE) => (disk[f] = orig[f] /\ bak[f] = bak0[f])

\* C9: with interactive=false and apply_all=false no source file is written
\* and no .bak is created, for auto_fix_project called directly and for
\* run_pipeline with autofix enabled.
C9_NonInteractiveNeverWrites ==
    (\/ entry = "auto_fix_project" /\ ~ afp.interactive /\ ~ afp.apply_all
     \/ /\ entry \in {"main", "worker"}
        /\ args.autofix /\ ~ args.interactive /\ ~ args.apply_all) =>
        /\ disk = orig
        /\ bak = bak0

\* the project directory holds no source file: only the file whose extension
\* is not supported and the file in the ignored directory may exist
OnlyNonSource == \A p \in DiskPaths : Exists(orig[p]) => p \in {Readme, DistFile}

\* C10: when the root path does not exist or holds no source file,
\* run_pipeline stops before batching: no batch, no model call, no write, no
\* .bak and no export file.
C10_AbortBeforeBatching ==
    (entry \in {"main", "worker"} /\ (~ root_exists \/ OnlyNonSource)) =>
        /\ pc \in {"rp_start", "rp_collect", "aborted"}
        /\ batches = <<>>
        /\ calls = <<>>
        /\ disk = orig
        /\ bak = bak0
        /\ overwritten = {}
        /\ exports = NoExports

\* C10 witness: a run on a directory holding only r.md was aborted.
C10_Witness ==
    /\ pc = "aborted"
    /\ root_exists
    /\ Exists(orig[Readme])
    /\ \A p \in DiskPaths \ {Readme} : ~ Exists(orig[p])

(***************************************************************************)
(* Properties of the order of the model calls (run_pipeline lines 340-365, *)
(* auto_fix_project lines 221-242).                                        *)
(***************************************************************************)
\* the position of file f in the file list fl (0 when it is not there)
IndexIn(fl, f) ==
    IF \E k \in 1..Len(fl) : fl[k] = f
    THEN CHOOSE k \in 1..Len(fl) : fl[k] = f
    ELSE 0

\* model call a comes before model call b in the order by batch index and
\* then file index, the review of a batch coming before its fixes
CallBefore(a, b) ==
    \/ a.batch < b.batch
    \/ /\ a.batch = b.batch
       /\ b.kind = "fix"
       /\ \/ a.kind = "review"
          \/ IndexIn(batch_files[a.batch], a.file)
                < IndexIn(batch_files[b.batch], b.file)

\* the calls made so far are in that order, and every fix call is for a file
\* of its batch and carries the review text of its batch
CallsOrdered ==
    \A k \in 1..Len(calls) :
        /\ calls[k].batch \in 1..Len(batches)
        /\ calls[k].batch <= Len(all_reviews)
        /\ calls[k].kind = "fix" =>
              /\ IndexIn(batch_files[calls[k].batch], calls[k].file) > 0
              /\ \E j \in 1..(k - 1) :
                    /\ calls[j].kind = "review"
                    /\ calls[j].batch = calls[k].batch
              /\ calls[k].review = all_reviews[calls[k].batch]
        /\ \A l \in (k + 1)..Len(calls) : CallBefore(calls[k], calls[l])

\* a step that calls write_file does so for the file of the latest model
\* call, which is the fix call of that file in the current batch
WriteAfterOwnFix ==
    \A p \in DiskPaths :
        wf_calls'[p] # wf_calls[p] =>
            /\ calls # <<>>
            /\ calls[Len(calls)].kind = "fix"
            /\ calls[Len(calls)].file = p
            /\ calls[Len(calls)].batch = batch_idx

\* C11: in a run of run_pipeline the model calls are ordered by batch index
\* and then file index: the review call of a batch comes before its fix
\* calls, every fix call and every write of a batch comes before the review
\* call of the next batch, and a fix call carries the review text of its own
\* batch.
C11_CallsOrderedByBatchThenFile ==
    /\ [](entry \in {"main", "worker"} => CallsOrdered)
    /\ [][(entry \in {"main", "worker"}) => WriteAfterOwnFix]_vars

\* C11 witness: two batches were reviewed with different review texts, a fix
\* was asked for in each, and the file of the first batch was written.
C11_Witness ==
    /\ entry \in {"main", "worker"}
    /\ Len(calls) = 4
    /\ calls[2].kind = "fix" /\ calls[2].batch = 1
    /\ calls[4].kind = "fix" /\ calls[4].batch = 2
    /\ all_reviews[1] # all_reviews[2]
    /\ wf_calls[calls[2].file] = 1

(***************************************************************************)
(* Properties of the failures of a run.                                    *)
(***************************************************************************)
\* run_pipeline has left its loop over the batches (line 367 onwards)
InExport ==
    /\ entry \in {"main", "worker"}
    /\ batches # <<>>
    /\ batch_idx = Len(batches) + 1

\* C12: in the export stage a failure of the spreadsheet export or of the
\* JSON export (a missing library, or a failure while saving) does not stop
\* the run: the run is at an export or DONE, never left by an exception, and
\* at DONE it has returned the aggregated review.
C12_ExportsIndependent ==
    InExport =>
        /\ pc \in {"rp_excel", "rp_json", "done"}
        /\ pc = "done" => result = JoinBlank(all_reviews)

\* C13: a failure of a model call, an unavailable model handle included, is
\* never raised out of run_pipeline: a run that has not reached the export
\* stage is never left by an exception.
C13_ModelFailureNotRaised ==
    (entry \in {"main", "worker"} /\ pc = "raised") => InExport

\* C16: in a run that started with no .bak files, a file that write_file has
\* overwritten has a sibling .bak, and the .bak holds the file's pre-run
\* content.
C16_OverwrittenHasBackup ==
    bak0 = NoFiles =>
        \A p \in overwritten :
            /\ Exists(bak[p])
            /\ Content(bak[p]) = Content(orig[p])

(***************************************************************************)
(* Properties of the rendezvous of ui_yes_no (lines 615-627).              *)
(***************************************************************************)
\* C14: when the interface is closed while the worker waits in ui_yes_no,
\* the wait ends and the prompt counts as a rejection: the worker goes on
\* with the file decided and not written.
C14_ClosedPromptRejects ==
    (pc = "ui_wait" /\ ~ app_alive)
        ~> (/\ pc = "afp_file"
            /\ file_idx > 1
            /\ wf_calls[afp.files_to_process[file_idx - 1]] = 0)

\* the number of answers deposited for file f
Deposits(f) == Cardinality({k \in 1..Len(prompts) : prompts[k].file = f})

\* a gate that is set belongs to the prompt of the current file, and the
\* answer of that prompt has been deposited in the result holder
GateAfterDeposit ==
    (pc = "ui_wait" /\ gate) =>
        /\ ~ ask_pending
        /\ Deposits(CurFile) = 1
        /\ prompts[Len(prompts)] = [file |-> CurFile, ans |-> result_holder]

\* a step in which ui_yes_no returns to the worker is taken with the gate
\* set, and write_file is called in it exactly when the answer deposited for
\* the current file is True
ReturnsDeposited ==
    (pc = "ui_wait" /\ pc' = "afp_file") =>
        /\ gate
        /\ Deposits(CurFile) = 1
        /\ prompts[Len(prompts)].file = CurFile
        /\ (wf_calls'[CurFile] = wf_calls[CurFile] + 1) <=> prompts[Len(prompts)].ans
        /\ (wf_calls'[CurFile] = wf_calls[CurFile]) <=> ~ prompts[Len(prompts)].ans

\* C15: ui_yes_no returns to the worker only after the interface thread has
\* deposited the answer and set the gate, what it returns is the answer
\* deposited for the prompt of the current file (False when the dialog
\* raised), and no answer deposited for another file is returned.
C15_ReturnsDepositedAnswer ==
    /\ []GateAfterDeposit
    /\ [][ReturnsDeposited]_vars

\* C15 witness: two prompts were answered, the first with yes and the second
\* with no; the first file was written and the second was not.
C15_Witness ==
    /\ Len(prompts) = 2
    /\ prompts[1].ans /\ ~ prompts[2].ans
    /\ prompts[1].file # prompts[2].file
    /\ decided = {prompts[1].file, prompts[2].file}
    /\ wf_calls[prompts[1].file] = 1
    /\ wf_calls[prompts[2].file] = 0
    /\ entry = "worker"

=============================================================================
